---- MODULE Spec2Model ----
(***************************************************************************)
(* Bonfire Discord bot: the synchronization engine between the Firestore   *)
(* collection discord_posts, the roster document gameData/roams and the    *)
(* Discord channel.  Every await of the JavaScript handlers is one step of *)
(* the model; a store or channel call may reject, which the step models as *)
(* a nondeterministic outcome.                                             *)
(***************************************************************************)
EXTENDS Integers, Sequences, FiniteSets, TLC

\* ------------------------------------------------------------ bounds
MaxEvents == 2
MaxRequests == 2
MaxContent == 2
CacheTimeout == 2

\* ------------------------------------------------------------ universes
UserIds == {"u1", "u2"}
RoamIds == {"r1", "r2"}
PostIds == {"p1", "p2"}
MsgIds == {"m1", "m2"}
None == "none"
TargetChannelId == "chan"
Emojis == {"ack", "other"}

VARIABLES
  users,      \* collection users: the Discord ids that have a document
  roster,     \* document gameData/roams
  posts,      \* collection discord_posts
  msgs,       \* the messages of the Discord channel
  rh,         \* reaction handlers (one per delivered reaction event)
  np,         \* new-post handlers, one per record that entered pending
  uh,         \* update handlers (handleDiscordMessageUpdate calls)
  timers,     \* pending setTimeout callbacks that clear _isInternalUpdate
  sw,         \* the sweep (syncAllReactionCounts call)
  uc,         \* userCache: the Map of the UserCache instance and its last answer
  hist        \* counters of what has happened so far

vars == <<users, roster, posts, msgs, rh, np, uh, timers, sw, uc, hist>>

\* ------------------------------------------------------------ helpers
Includes(seq, x) == \E i \in 1..Len(seq) : seq[i] = x

FindIndex(sched, roamId) ==
  IF \E i \in 1..Len(sched) : sched[i].id = roamId
    THEN CHOOSE i \in 1..Len(sched) :
           /\ sched[i].id = roamId
           /\ \A j \in 1..(i - 1) : sched[j].id # roamId
    ELSE 0

\* typeof guest === 'string' ? guest : guest.discordId
GuestId(guest) == IF guest.kind = "string" THEN guest.value ELSE guest.discordId

StringGuest(u) == [kind |-> "string", value |-> u, discordId |-> None, discordUsername |-> None]
GuestInfo(u, name) == [kind |-> "object", value |-> None, discordId |-> u, discordUsername |-> name]

GuestIds(guests) == {GuestId(guests[i]) : i \in 1..Len(guests)}
SeqSet(seq) == {seq[i] : i \in 1..Len(seq)}
Occurrences(seq, x) == Cardinality({i \in 1..Len(seq) : seq[i] = x})
GuestOccurrences(guests, u) == Cardinality({i \in 1..Len(guests) : GuestId(guests[i]) = u})

\* ------------------------------------------------------------ roster algorithms
WithoutGuest(guests, u) == SelectSeq(guests, LAMBDA g : GuestId(g) # u)

M_RegisteredSignup_KeepGuest(roam, u) ==
  IF Includes(roam.signups, u)
    THEN [write |-> FALSE, roam |-> roam]
    ELSE [write |-> TRUE, roam |-> [roam EXCEPT !.signups = Append(roam.signups, u)]]

M_RegisteredSignup_NoCheck(roam, u) ==
  [write |-> TRUE,
   roam |-> [roam EXCEPT !.guests = WithoutGuest(roam.guests, u),
                         !.signups = Append(roam.signups, u)]]

\* handleRoamSignup, registered branch
RegisteredSignup(roam, u) ==
  IF Includes(roam.signups, u)
    THEN [write |-> FALSE, roam |-> roam]
    ELSE [write |-> TRUE,
          roam |-> [roam EXCEPT !.guests = WithoutGuest(roam.guests, u),
                                !.signups = Append(roam.signups, u)]]

M_GuestSignup_NoGuestCheck(roam, u, name) ==
  IF Includes(roam.signups, u)
    THEN [write |-> FALSE, roam |-> roam]
    ELSE [write |-> TRUE,
          roam |-> [roam EXCEPT !.guests = Append(roam.guests, GuestInfo(u, name))]]

M_GuestSignup_NoSignupCheck(roam, u, name) ==
  IF u \in GuestIds(roam.guests)
    THEN [write |-> FALSE, roam |-> roam]
    ELSE [write |-> TRUE,
          roam |-> [roam EXCEPT !.guests = Append(roam.guests, GuestInfo(u, name))]]

M_GuestSignup_AlsoSignup(roam, u, name) ==
  IF u \in GuestIds(roam.guests)
    THEN [write |-> FALSE, roam |-> roam]
    ELSE IF Includes(roam.signups, u)
      THEN [write |-> FALSE, roam |-> roam]
      ELSE [write |-> TRUE,
            roam |-> [roam EXCEPT !.guests = Append(roam.guests, GuestInfo(u, name)),
                                  !.signups = Append(roam.signups, u)]]

\* handleRoamSignup, guest branch
GuestSignup(roam, u, name) ==
  IF u \in GuestIds(roam.guests)
    THEN [write |-> FALSE, roam |-> roam]
    ELSE IF Includes(roam.signups, u)
      THEN [write |-> FALSE, roam |-> roam]
      ELSE [write |-> TRUE,
            roam |-> [roam EXCEPT !.guests = Append(roam.guests, GuestInfo(u, name))]]

M_SignupRoam_AlwaysRegistered(roam, u, isRegisteredUser, name) == RegisteredSignup(roam, u)

SignupRoam(roam, u, isRegisteredUser, name) ==
  IF isRegisteredUser THEN RegisteredSignup(roam, u) ELSE GuestSignup(roam, u, name)

M_UnsignupRoam_AlwaysWrite(roam, u, isRegisteredUser) ==
  LET updatedSignups == SelectSeq(roam.signups, LAMBDA s : s # u)
      fromSignups == isRegisteredUser /\ Len(updatedSignups) # Len(roam.signups)
      updatedGuests == WithoutGuest(roam.guests, u)
  IN  IF fromSignups
        THEN [write |-> TRUE, roam |-> [roam EXCEPT !.signups = updatedSignups]]
        ELSE [write |-> TRUE, roam |-> [roam EXCEPT !.guests = updatedGuests]]

\* handleRoamUnsignup: signups first (registered users only), then guests
UnsignupRoam(roam, u, isRegisteredUser) ==
  LET updatedSignups == SelectSeq(roam.signups, LAMBDA s : s # u)
      fromSignups == isRegisteredUser /\ Len(updatedSignups) # Len(roam.signups)
      updatedGuests == WithoutGuest(roam.guests, u)
      fromGuests == ~fromSignups /\ Len(updatedGuests) # Len(roam.guests)
  IN  IF fromSignups
        THEN [write |-> TRUE, roam |-> [roam EXCEPT !.signups = updatedSignups]]
        ELSE IF fromGuests
          THEN [write |-> TRUE, roam |-> [roam EXCEPT !.guests = updatedGuests]]
          ELSE [write |-> FALSE, roam |-> roam]

RoamChange(h, roam) ==
  IF h.kind = "add"
    THEN SignupRoam(roam, h.user, h.isRegisteredUser, h.name)
    ELSE UnsignupRoam(roam, h.user, h.isRegisteredUser)

\* ------------------------------------------------------------ documents
NoReactions == [e \in Emojis |-> 0]

\* a discord_posts document; status "none" stands for a document not created yet
NoPost ==
  [status |-> "none", content |-> 0, roamId |-> None,
   discordMessageId |-> None, discordChannelId |-> None, discordUrl |-> <<>>,
   postedAt |-> FALSE, reactionKeys |-> {}, reactions |-> NoReactions,
   updateRequested |-> FALSE, isInternalUpdate |-> FALSE, lastUpdated |-> FALSE,
   error |-> None, errorAt |-> FALSE, updateError |-> None]

\* createDiscordPost: {...postData, status: 'pending', reactions: {'✅': 0}}
PendingPost(content, roamId) ==
  [NoPost EXCEPT !.status = "pending", !.content = content, !.roamId = roamId,
                 !.reactionKeys = {"ack"}]

\* formatPostMessage: the body shows the content fields and, when it is
\* positive, the stored count of the acknowledgement symbol
FormatPostMessage(postData) ==
  [content |-> postData.content,
   reactionCount |-> IF "ack" \in postData.reactionKeys THEN postData.reactions["ack"] ELSE 0]

NoBody == [content |-> 0, reactionCount |-> 0]

NoMessage ==
  [exists |-> FALSE, sentFor |-> None, body |-> NoBody, botReacted |-> FALSE,
   reactors |-> {}, others |-> 0]

MessageUrl(m) == <<TargetChannelId, m>>

\* reaction.count of the acknowledgement symbol on a message
LiveCount(m) == Cardinality(msgs[m].reactors) + (IF msgs[m].botReacted THEN 1 ELSE 0)

\* reactions[emoji] || 0
StoredCount(p) == IF "ack" \in posts[p].reactionKeys THEN posts[p].reactions["ack"] ELSE 0

\* where('discordMessageId', '==', id).get(), docs[0]
PostsWithMessage(m) == {p \in PostIds : posts[p].status # "none" /\ posts[p].discordMessageId = m}
FirstPostWithMessage(m) == CHOOSE p \in PostsWithMessage(m) : TRUE

EmptyRoam(id) == [id |-> id, signups |-> <<>>, guests |-> <<>>]

\* ------------------------------------------------------------ snapshot listeners
IdleNewPost == [pc |-> "idle", postData |-> NoPost, msg |-> None, error |-> None]
NewPostHandler(postData) == [IdleNewPost EXCEPT !.pc = "send", !.postData = postData]

\* cause: the writer whose write the listener reacted to
UpdateHandler(id, p, postData, updateType, cause) ==
  [id |-> id, post |-> p, postData |-> postData, updateType |-> updateType,
   cause |-> cause, pc |-> "edit", error |-> None]

M_HasContentChanges_Always(previousData, postData) == TRUE

\* the automatic content-update listener: fieldsToWatch.some(field => false)
HasContentChanges(previousData, postData) == \E field \in {"title", "description", "additionalInfo", "roamDetails"} : FALSE

M_EntersPending_AnyChange(old, new) == new.status = "pending"

\* where('status','==','pending'): change.type === 'added'
EntersPending(old, new) == new.status = "pending" /\ old.status # "pending"

\* where('updateRequested','==',true): change.type 'added' or 'modified'
ManualUpdateChange(old, new, changed) == new.updateRequested /\ changed

\* where('status','==','posted'): change.type 'modified', not skipped, content changed
AutoUpdateChange(old, new, changed) ==
  /\ old.status = "posted" /\ new.status = "posted" /\ changed
  /\ ~(new.updateRequested \/ new.isInternalUpdate)
  /\ HasContentChanges(new, new)

\* A write to document p of discord_posts, and the handlers the three
\* onSnapshot listeners start for it.  changed: the write altered the document
\* (a write that carries a fresh timestamp always does).
Commit(p, new, changed, cause, uhBase, npBase, histBase) ==
  LET old == posts[p]
      manual == ManualUpdateChange(old, new, changed)
      auto == AutoUpdateChange(old, new, changed)
      n == histBase.nextUH
  IN  /\ posts' = [posts EXCEPT ![p] = new]
      /\ uh' = uhBase
               \cup (IF manual THEN {UpdateHandler(n, p, new, "manual", cause)} ELSE {})
               \cup (IF auto THEN {UpdateHandler(n + 1, p, new, "auto", cause)} ELSE {})
      /\ np' = IF EntersPending(old, new) THEN [npBase EXCEPT ![p] = NewPostHandler(new)] ELSE npBase
      /\ hist' = [histBase EXCEPT !.nextUH = n + (IF manual THEN 1 ELSE 0) + (IF auto THEN 1 ELSE 0)]

\* ------------------------------------------------------------ accounts
RegisterUser(u) ==
  /\ u \notin users
  /\ users' = users \cup {u}
  /\ UNCHANGED <<uc, roster, posts, msgs, rh, np, uh, timers, sw, hist>>

\* the account document of u is no longer in the store: userDoc.exists is false
UnregisterUser(u) ==
  /\ u \in users
  /\ users' = users \ {u}
  /\ UNCHANGED <<uc, roster, posts, msgs, rh, np, uh, timers, sw, hist>>

\* ------------------------------------------------------------ reaction events
\* found: the query of updateReactionCount returned a record
ReactionHandler(id, kind, m, u, count) ==
  [id |-> id, kind |-> kind, msg |-> m, user |-> u, name |-> "Unknown", count |-> count,
   pc |-> "count", isRegisteredUser |-> FALSE, roamId |-> None,
   read |-> <<>>, idx |-> 0, found |-> FALSE]

\* what is remembered of a handler that has returned
Outcome(h, outcome) ==
  [kind |-> h.kind, user |-> h.user, isRegisteredUser |-> h.isRegisteredUser, outcome |-> outcome]

\* the handler h returns with the given outcome; the outcomes of the handlers
\* that got as far as the Event are remembered
Returned(histBase, h, outcome) ==
  IF outcome \in {"wrote", "promoted", "noop"}
    THEN [histBase EXCEPT !.outcomes = @ \cup {Outcome(h, outcome)}]
    ELSE histBase

\* a user adds the acknowledgement symbol; the event is delivered or lost
ReactionAddWith(m, u, delivered) ==
  /\ msgs[m].exists /\ u \notin msgs[m].reactors
  /\ hist.events < MaxEvents
  /\ msgs' = [msgs EXCEPT ![m].reactors = @ \cup {u}]
  /\ rh' = IF delivered
            THEN rh \cup {ReactionHandler(hist.events + 1, "add", m, u, LiveCount(m) + 1)}
            ELSE rh
  /\ hist' = [hist EXCEPT !.events = @ + 1]
  /\ UNCHANGED <<uc, users, roster, posts, np, uh, timers, sw>>

ReactionAdd(m, u) == \E delivered \in BOOLEAN : ReactionAddWith(m, u, delivered)

\* a user removes the acknowledgement symbol
ReactionRemoveWith(m, u, delivered) ==
  /\ msgs[m].exists /\ u \in msgs[m].reactors
  /\ hist.events < MaxEvents
  /\ msgs' = [msgs EXCEPT ![m].reactors = @ \ {u}]
  /\ rh' = IF delivered
            THEN rh \cup {ReactionHandler(hist.events + 1, "remove", m, u, LiveCount(m) - 1)}
            ELSE rh
  /\ hist' = [hist EXCEPT !.events = @ + 1]
  /\ UNCHANGED <<uc, users, roster, posts, np, uh, timers, sw>>

ReactionRemove(m, u) == \E delivered \in BOOLEAN : ReactionRemoveWith(m, u, delivered)

\* at-least-once delivery: the event of a reaction that is on the message comes again
ReactionAddAgain(m, u) ==
  /\ msgs[m].exists /\ u \in msgs[m].reactors
  /\ hist.events < MaxEvents
  /\ rh' = rh \cup {ReactionHandler(hist.events + 1, "add", m, u, LiveCount(m))}
  /\ hist' = [hist EXCEPT !.events = @ + 1]
  /\ UNCHANGED <<uc, users, roster, posts, msgs, np, uh, timers, sw>>

\* at-least-once delivery: the event of a removed reaction comes again
ReactionRemoveAgain(m, u) ==
  /\ msgs[m].exists /\ u \notin msgs[m].reactors
  /\ hist.events < MaxEvents
  /\ rh' = rh \cup {ReactionHandler(hist.events + 1, "remove", m, u, LiveCount(m))}
  /\ hist' = [hist EXCEPT !.events = @ + 1]
  /\ UNCHANGED <<uc, users, roster, posts, msgs, np, uh, timers, sw>>

M_ClearHandler_KeepsBotMark(id, m) == ReactionHandler(id, "clear", m, None, 1)

\* the MessageReactionRemoveAll handler: updateReactionCount(message.id, ack, 0)
ClearHandler(id, m) == ReactionHandler(id, "clear", m, None, 0)

\* a reactions-cleared event: every reaction leaves the message
ReactionsCleared(m) ==
  /\ msgs[m].exists
  /\ hist.events < MaxEvents
  /\ msgs' = [msgs EXCEPT ![m].reactors = {}, ![m].botReacted = FALSE, ![m].others = 0]
  /\ \E delivered \in BOOLEAN :
       rh' = IF delivered
               THEN rh \cup {ClearHandler(hist.events + 1, m)}
               ELSE rh
  /\ hist' = [hist EXCEPT !.events = @ + 1]
  /\ UNCHANGED <<uc, users, roster, posts, np, uh, timers, sw>>

\* updateReactionCount(messageId, emoji, count); the query and the update by
\* reference are one step: discordMessageId never changes once it is written
RHUpdateCount(h) ==
  /\ h \in rh /\ h.pc = "count"
  /\ \E ok \in BOOLEAN :
       IF ~ok
         THEN /\ rh' = rh \ {h}
              /\ hist' = Returned(hist, h, "dropped")
              /\ UNCHANGED <<posts, uh, np>>
         ELSE LET histNext == IF h.kind = "clear" THEN Returned(hist, h, "counted") ELSE hist
                  found == PostsWithMessage(h.msg) # {}
              IN  /\ rh' = (rh \ {h}) \cup (IF h.kind = "clear" THEN {}
                                             ELSE {[h EXCEPT !.pc = "user", !.found = found]})
                  /\ IF PostsWithMessage(h.msg) = {}
                       THEN /\ hist' = histNext
                            /\ UNCHANGED <<posts, uh, np>>
                       ELSE LET p == FirstPostWithMessage(h.msg)
                            IN  Commit(p, [posts[p] EXCEPT !.reactions["ack"] = h.count,
                                                           !.reactionKeys = @ \cup {"ack"}],
                                       TRUE, "reaction", uh, np, histNext)
  /\ UNCHANGED <<uc, users, roster, msgs, timers, sw>>

\* collections.get('users').doc(discordUserId).get()
RHGetUser(h) ==
  /\ h \in rh /\ h.pc = "user"
  /\ \E ok \in BOOLEAN :
       IF ok
         THEN /\ rh' = (rh \ {h}) \cup {[h EXCEPT !.pc = "post", !.isRegisteredUser = (h.user \in users)]}
              /\ UNCHANGED hist
         ELSE /\ rh' = rh \ {h}
              /\ hist' = Returned(hist, h, "dropped")
  /\ UNCHANGED <<uc, users, roster, posts, msgs, np, uh, timers, sw>>

\* the discord_posts query of handleRoamSignup / handleRoamUnsignup
RHGetPost(h) ==
  /\ h \in rh /\ h.pc = "post"
  /\ \E ok \in BOOLEAN :
       LET result == IF ~ok THEN "dropped"
                     ELSE IF PostsWithMessage(h.msg) = {} THEN "nopost"
                     ELSE IF posts[FirstPostWithMessage(h.msg)].roamId = None THEN "noroamid"
                     ELSE "found"
       IN  IF result = "found"
             THEN /\ rh' = (rh \ {h}) \cup
                           {[h EXCEPT !.pc = "roam", !.roamId = posts[FirstPostWithMessage(h.msg)].roamId]}
                  /\ UNCHANGED hist
             ELSE /\ rh' = rh \ {h}
                  /\ hist' = Returned(hist, h, result)
  /\ UNCHANGED <<uc, users, roster, posts, msgs, np, uh, timers, sw>>

\* roamRef.get() and the computation that follows it without an await
RHGetRoam(h) ==
  /\ h \in rh /\ h.pc = "roam"
  /\ \E ok \in BOOLEAN :
       LET roamIndex == FindIndex(roster.scheduled, h.roamId)
           result == IF ~ok THEN "dropped"
                     ELSE IF ~roster.exists THEN "noroster"
                     ELSE IF roamIndex = 0 THEN "noroam"
                     ELSE IF ~RoamChange(h, roster.scheduled[roamIndex]).write THEN "noop"
                     ELSE "change"
       IN  IF result = "change"
             THEN /\ rh' = (rh \ {h}) \cup
                           {[h EXCEPT !.pc = "write", !.read = roster.scheduled, !.idx = roamIndex]}
                  /\ UNCHANGED hist
             ELSE /\ rh' = rh \ {h}
                  /\ hist' = Returned(hist, h, result)
  /\ UNCHANGED <<uc, users, roster, posts, msgs, np, uh, timers, sw>>

M_UpdatedSchedule_Current(h) ==
  [roster.scheduled EXCEPT ![h.idx] = RoamChange(h, roster.scheduled[h.idx]).roam]

\* scheduledRoams[roamIndex] = roam
UpdatedSchedule(h) == [h.read EXCEPT ![h.idx] = RoamChange(h, h.read[h.idx]).roam]

\* roamRef.update({scheduled: scheduledRoams, lastUpdated})
RHWriteRoam(h) ==
  /\ h \in rh /\ h.pc = "write"
  /\ \E ok \in BOOLEAN :
       IF ok
         THEN /\ roster' = [roster EXCEPT !.scheduled = UpdatedSchedule(h), !.lastUpdated = @ + 1]
              /\ rh' = rh \ {h}
              /\ hist' = Returned(hist, h, IF h.kind = "add" /\ h.isRegisteredUser
                                                 /\ h.user \in GuestIds(h.read[h.idx].guests)
                                              THEN "promoted" ELSE "wrote")
         ELSE /\ rh' = rh \ {h}
              /\ hist' = Returned(hist, h, "dropped")
              /\ UNCHANGED roster
  /\ UNCHANGED <<uc, users, posts, msgs, np, uh, timers, sw>>

\* ------------------------------------------------------------ identity cache
\* an entry of the Map; age is Date.now() - lastUpdated in clock ticks, of
\* which cacheTimeout is CacheTimeout; an age above it is not told apart further
NoEntry == [cached |-> FALSE, firebaseId |-> None, age |-> 0]
CacheEntry(firebaseId) == [cached |-> TRUE, firebaseId |-> firebaseId, age |-> 0]
EmptyCache == [u \in UserIds |-> NoEntry]

\* last: the answer of the latest getFirebaseUserId call; pending: the calls
\* that await their users query; missed: the ids that were answered absent
NoAnswer == [user |-> None, result |-> None, path |-> "none"]
NoCache == [cache |-> EmptyCache, pending |-> {}, last |-> NoAnswer, missed |-> {}]

M_CacheHit_IgnoresAge(cache, u) == cache[u].cached

\* cached && (Date.now() - cached.lastUpdated) < this.cacheTimeout
CacheHit(cache, u) == cache[u].cached /\ cache[u].age < CacheTimeout

\* users.where('id', '==', discordId).limit(1): the document id, or empty
UserQuery(u) == IF u \in users THEN u ELSE None

\* what getFirebaseUserId(u) answers when its query does not fail
ResolveResult(cache, u) == IF CacheHit(cache, u) THEN cache[u].firebaseId ELSE UserQuery(u)

M_CacheSet_Negative(cache, u) == [cache EXCEPT ![u] = CacheEntry(UserQuery(u))]

\* if (userQuery.empty) return null; else this.cache.set(discordId, {...})
CacheSet(cache, u) ==
  IF UserQuery(u) = None THEN cache ELSE [cache EXCEPT ![u] = CacheEntry(UserQuery(u))]

M_CacheAfterHit_Refresh(cache, u) == [cache EXCEPT ![u].age = 0]

\* a hit returns {firebaseId, username, fromCache: true}; the Map is not touched
CacheAfterHit(cache, u) == cache

\* getFirebaseUserId up to its await: a hit answers at once
GetFirebaseUserId(u) ==
  /\ u \notin uc.pending
  /\ uc' = IF CacheHit(uc.cache, u)
             THEN [uc EXCEPT !.cache = CacheAfterHit(uc.cache, u),
                             !.last = [user |-> u, result |-> uc.cache[u].firebaseId, path |-> "hit"]]
             ELSE [uc EXCEPT !.pending = @ \cup {u}]
  /\ UNCHANGED <<users, roster, posts, msgs, rh, np, uh, timers, sw, hist>>

\* the users query returns or rejects (the catch answers null)
UserQueryReturns(u) ==
  /\ u \in uc.pending
  /\ \E ok \in BOOLEAN :
       uc' = IF ~ok
               THEN [uc EXCEPT !.pending = @ \ {u},
                               !.last = [user |-> u, result |-> None, path |-> "failed"]]
               ELSE [uc EXCEPT !.pending = @ \ {u},
                               !.cache = CacheSet(uc.cache, u),
                               !.last = [user |-> u, result |-> UserQuery(u),
                                         path |-> IF UserQuery(u) = None THEN "absent" ELSE "found"],
                               !.missed = IF UserQuery(u) = None THEN @ \cup {u} ELSE @]
  /\ UNCHANGED <<users, roster, posts, msgs, rh, np, uh, timers, sw, hist>>

\* time passes: the age of an entry reaches, then exceeds, cacheTimeout
EntryAges(u) ==
  /\ uc.cache[u].cached /\ uc.cache[u].age <= CacheTimeout
  /\ uc' = [uc EXCEPT !.cache[u].age = @ + 1]
  /\ UNCHANGED <<users, roster, posts, msgs, rh, np, uh, timers, sw, hist>>

\* clearCache(): this.cache.clear()
ClearedCache(cache) == EmptyCache

ClearCache ==
  /\ uc.cache # EmptyCache
  /\ uc' = [uc EXCEPT !.cache = ClearedCache(uc.cache)]
  /\ UNCHANGED <<users, roster, posts, msgs, rh, np, uh, timers, sw, hist>>

\* cleanup(): delete the entries with (now - data.lastUpdated) > cacheTimeout
CleanedCache(cache) ==
  [u \in UserIds |-> IF cache[u].cached /\ cache[u].age > CacheTimeout THEN NoEntry ELSE cache[u]]

Cleanup ==
  /\ CleanedCache(uc.cache) # uc.cache
  /\ uc' = [uc EXCEPT !.cache = CleanedCache(uc.cache)]
  /\ UNCHANGED <<users, roster, posts, msgs, rh, np, uh, timers, sw, hist>>

\* ------------------------------------------------------------ initial states
NoHistory ==
  [events |-> 0, nextUH |-> 1, outcomes |-> {},
   requests |-> [p \in PostIds |-> 0], edits |-> [p \in PostIds |-> 0],
   statusWrites |-> [p \in PostIds |-> <<>>], unhandled |-> {},
   lastEvent |-> [user |-> None, channelId |-> None, emoji |-> None]]

\* docs: snapshot.docs still to be visited; started, startedQuiet, eventsAtStart:
\* what the store and the channel looked like when the query ran
IdleSweep == [pc |-> "idle", docs |-> <<>>, stats |-> NoReactions, statKeys |-> {},
              syncCount |-> 0, started |-> {}, startedQuiet |-> TRUE,
              eventsAtStart |-> 0]

\* the record of a post that was sent as message m and written back
PostedPost(content, roamId, m) ==
  [PendingPost(content, roamId) EXCEPT
     !.status = "posted", !.discordMessageId = m, !.discordChannelId = TargetChannelId,
     !.discordUrl = MessageUrl(m), !.postedAt = TRUE, !.reactions = NoReactions,
     !.reactionKeys = {"ack"}]

SentMessage(p, postData) ==
  [NoMessage EXCEPT !.exists = TRUE, !.sentFor = p, !.body = FormatPostMessage(postData),
                    !.botReacted = TRUE]

\* a store that holds one posted roam announcement and a roster of two events
InitRoster ==
  /\ users = {}
  /\ \E g \in {<<>>, <<StringGuest("u2")>>} :
       roster = [exists |-> TRUE, lastUpdated |-> 0,
                 scheduled |-> <<[EmptyRoam("r1") EXCEPT !.guests = g], EmptyRoam("r2")>>]
  /\ posts = [p \in PostIds |-> IF p = "p1" THEN PostedPost(1, "r1", "m1") ELSE NoPost]
  /\ msgs = [m \in MsgIds |-> IF m = "m1" THEN SentMessage("p1", PendingPost(1, "r1")) ELSE NoMessage]
  /\ rh = {}
  /\ np = [p \in PostIds |-> IdleNewPost]
  /\ uh = {}
  /\ timers = [p \in PostIds |-> 0]
  /\ sw = IdleSweep
  /\ uc = NoCache
  /\ hist = NoHistory

NextRoster ==
  \/ \E u \in UserIds : RegisterUser(u)
  \/ \E u \in UserIds : UnregisterUser(u)
  \/ \E m \in MsgIds, u \in UserIds : ReactionAdd(m, u)
  \/ \E m \in MsgIds, u \in UserIds : ReactionRemove(m, u)
  \/ \E m \in MsgIds, u \in UserIds : ReactionAddAgain(m, u)
  \/ \E m \in MsgIds, u \in UserIds : ReactionRemoveAgain(m, u)
  \/ \E m \in MsgIds : ReactionsCleared(m)
  \/ \E h \in rh : RHUpdateCount(h)
  \/ \E h \in rh : RHGetUser(h)
  \/ \E h \in rh : RHGetPost(h)
  \/ \E h \in rh : RHGetRoam(h)
  \/ \E h \in rh : RHWriteRoam(h)

SpecRoster == InitRoster /\ [][NextRoster]_vars

\* ------------------------------------------------------------ reaction monitoring
\* the events the gateway hands to MessageReactionAdd / MessageReactionRemove:
\* any account (the bot included), any channel, any symbol
BotId == "bot"
OtherChannelId == "elsewhere"
ReactionEvents ==
  [user : UserIds \cup {BotId}, channelId : {TargetChannelId, OtherChannelId}, emoji : Emojis]

M_Monitored_AnyEmoji(ev) == ev.user # BotId /\ ev.channelId = TargetChannelId

\* if (user.bot) return; if (channel.id !== targetChannelId) return;
\* if (reaction.emoji.name === '✅') { ... }
Monitored(ev) == ev.user # BotId /\ ev.channelId = TargetChannelId /\ ev.emoji = "ack"

\* the reaction of ev is on message m
Reacted(m, ev) ==
  IF ev.emoji # "ack" THEN msgs[m].others > 0
  ELSE IF ev.user = BotId THEN msgs[m].botReacted
  ELSE ev.user \in msgs[m].reactors

\* the channel after the reaction of ev was added to or removed from m; a
\* message of another channel is not among msgs
AfterReaction(kind, m, ev) ==
  IF ev.channelId # TargetChannelId THEN msgs
  ELSE IF ev.emoji # "ack"
    THEN [msgs EXCEPT ![m].others = IF kind = "add" THEN @ + 1 ELSE @ - 1]
  ELSE IF ev.user = BotId
    THEN [msgs EXCEPT ![m].botReacted = (kind = "add")]
  ELSE [msgs EXCEPT ![m].reactors = IF kind = "add" THEN @ \cup {ev.user} ELSE @ \ {ev.user}]

\* reaction.count of the event
EventCount(kind, m, ev) ==
  IF ev.channelId # TargetChannelId THEN (IF kind = "add" THEN 1 ELSE 0)
  ELSE IF ev.emoji # "ack" THEN msgs[m].others + (IF kind = "add" THEN 1 ELSE -1)
  ELSE LiveCount(m) + (IF kind = "add" THEN 1 ELSE -1)

\* a MessageReactionAdd / MessageReactionRemove event as the gateway emits it;
\* reaction.fetch() of a partial reaction may reject, which ends the callback
ReactionEvent(kind, m, ev) ==
  /\ hist.events < MaxEvents
  /\ IF ev.channelId = TargetChannelId
       THEN msgs[m].exists /\ ((kind = "add") <=> ~Reacted(m, ev))
       ELSE ~msgs[m].exists
  /\ msgs' = AfterReaction(kind, m, ev)
  /\ \E fetched \in BOOLEAN :
       rh' = IF fetched /\ Monitored(ev)
               THEN rh \cup {ReactionHandler(hist.events + 1, kind, m, ev.user, EventCount(kind, m, ev))}
               ELSE rh
  /\ hist' = [hist EXCEPT !.events = @ + 1, !.lastEvent = ev]
  /\ UNCHANGED <<uc, users, roster, posts, np, uh, timers, sw>>

NextMonitor ==
  \/ \E kind \in {"add", "remove"}, m \in MsgIds, ev \in ReactionEvents : ReactionEvent(kind, m, ev)
  \/ \E h \in rh : RHUpdateCount(h)
  \/ \E h \in rh : RHGetUser(h)
  \/ \E h \in rh : RHGetPost(h)
  \/ \E h \in rh : RHGetRoam(h)
  \/ \E h \in rh : RHWriteRoam(h)

SpecMonitor == InitRoster /\ [][NextMonitor]_vars

\* ------------------------------------------------------------ external writers
\* createDiscordPost: a writer adds a record in pending
CreatePost(p, roamId) ==
  /\ posts[p].status = "none"
  /\ Commit(p, PendingPost(1, roamId), TRUE, "external", uh, np, hist)
  /\ UNCHANGED <<uc, users, roster, msgs, rh, timers, sw>>

\* requestPostUpdate(postId, updateData): the request carries new content
RequestPostUpdate(p) ==
  /\ posts[p].status # "none"
  /\ hist.requests[p] < MaxRequests
  /\ Commit(p, [posts[p] EXCEPT !.updateRequested = TRUE, !.content = @ + 1],
            TRUE, "external", uh, np, [hist EXCEPT !.requests[p] = @ + 1])
  /\ UNCHANGED <<uc, users, roster, msgs, rh, timers, sw>>

\* DELETE /api/discord/post/:postId: the soft delete (of a record not yet deleted)
DeletePost(p) ==
  /\ posts[p].status \notin {"none", "deleted"}
  /\ Commit(p, [posts[p] EXCEPT !.status = "deleted"], TRUE, "external", uh, np, hist)
  /\ UNCHANGED <<uc, users, roster, msgs, rh, timers, sw>>

\* the messages the engine has sent for record p
SentFor(p) == {m \in MsgIds : msgs[m].exists /\ msgs[m].sentFor = p}

\* ------------------------------------------------------------ new-post handler
FreeMessageIds == {m \in MsgIds : ~msgs[m].exists}

\* postToDiscord up to channel.send(messageContent)
NPSend(p) ==
  /\ np[p].pc = "send"
  /\ FreeMessageIds # {}
  /\ \E ok \in BOOLEAN :
       IF ok
         THEN LET m == CHOOSE x \in FreeMessageIds : TRUE
              IN  /\ msgs' = [msgs EXCEPT ![m] =
                                [NoMessage EXCEPT !.exists = TRUE, !.sentFor = p,
                                                  !.body = FormatPostMessage(np[p].postData)]]
                  /\ np' = [np EXCEPT ![p].pc = "react", ![p].msg = m]
         ELSE /\ np' = [np EXCEPT ![p].pc = "errwrite", ![p].error = "send"]
              /\ UNCHANGED msgs
  /\ UNCHANGED <<uc, users, roster, posts, rh, uh, timers, sw, hist>>

\* await message.react('✅')
NPReact(p) ==
  /\ np[p].pc = "react"
  /\ \E ok \in BOOLEAN :
       IF ok
         THEN /\ msgs' = [msgs EXCEPT ![np[p].msg].botReacted = TRUE]
              /\ np' = [np EXCEPT ![p].pc = "write"]
         ELSE /\ np' = [np EXCEPT ![p].pc = "errwrite", ![p].error = "react"]
              /\ UNCHANGED msgs
  /\ UNCHANGED <<uc, users, roster, posts, rh, uh, timers, sw, hist>>

StatusWritten(histBase, p, to) ==
  [histBase EXCEPT !.statusWrites[p] = Append(@, [from |-> posts[p].status, to |-> to])]

M_PostedWriteBack_NoUrl(doc, m) ==
  [doc EXCEPT !.status = "posted", !.discordMessageId = m,
              !.discordChannelId = TargetChannelId,
              !.postedAt = TRUE, !.reactionKeys = {"ack"}, !.reactions = NoReactions]

M_PostedWriteBack_NoMessageId(doc, m) ==
  [doc EXCEPT !.status = "posted",
              !.discordChannelId = TargetChannelId, !.discordUrl = MessageUrl(m),
              !.postedAt = TRUE, !.reactionKeys = {"ack"}, !.reactions = NoReactions]

\* the fields of the write-back after a successful postToDiscord
PostedWriteBack(doc, m) ==
  [doc EXCEPT !.status = "posted", !.discordMessageId = m,
              !.discordChannelId = TargetChannelId, !.discordUrl = MessageUrl(m),
              !.postedAt = TRUE, !.reactionKeys = {"ack"}, !.reactions = NoReactions]

\* update({status: 'posted', discordMessageId, ..., reactions: {'✅': 0}})
NPWrite(p) ==
  /\ np[p].pc = "write"
  /\ \E ok \in BOOLEAN :
       IF ok
         THEN Commit(p, PostedWriteBack(posts[p], np[p].msg), TRUE, "newpost", uh,
                     [np EXCEPT ![p].pc = "done"], StatusWritten(hist, p, "posted"))
         ELSE /\ np' = [np EXCEPT ![p].pc = "errwrite", ![p].error = "write"]
              /\ UNCHANGED <<posts, uh, hist>>
  /\ UNCHANGED <<uc, users, roster, msgs, rh, timers, sw>>

\* the catch block: update({status: 'error', error: error.message, errorAt});
\* a rejection of this update is not caught by anything
NPErrWrite(p) ==
  /\ np[p].pc = "errwrite"
  /\ \E ok \in BOOLEAN :
       IF ok
         THEN Commit(p, [posts[p] EXCEPT !.status = "error", !.error = np[p].error,
                                         !.errorAt = TRUE],
                     TRUE, "newpost", uh, [np EXCEPT ![p].pc = "done"],
                     StatusWritten(hist, p, "error"))
         ELSE /\ np' = [np EXCEPT ![p].pc = "crashed"]
              /\ hist' = [hist EXCEPT !.unhandled = @ \cup {"newpost"}]
              /\ UNCHANGED <<posts, uh>>
  /\ UNCHANGED <<uc, users, roster, msgs, rh, timers, sw>>

\* ------------------------------------------------------------ update handler
\* handleDiscordMessageUpdate up to updateDiscordMessage(discordMessageId, postData)
UHEdit(h) ==
  /\ h \in uh /\ h.pc = "edit"
  /\ IF h.postData.discordMessageId = None
       THEN /\ uh' = (uh \ {h}) \cup {[h EXCEPT !.pc = "errwrite", !.error = "nomessageid"]}
            /\ UNCHANGED <<msgs, hist>>
       ELSE \E ok \in BOOLEAN :
              /\ hist' = [hist EXCEPT !.edits[h.post] = @ + 1]
              /\ IF ok /\ msgs[h.postData.discordMessageId].exists
                   THEN /\ msgs' = [msgs EXCEPT ![h.postData.discordMessageId].body =
                                                  FormatPostMessage(h.postData)]
                        /\ uh' = (uh \ {h}) \cup {[h EXCEPT !.pc = "write"]}
                   ELSE /\ uh' = (uh \ {h}) \cup {[h EXCEPT !.pc = "errwrite", !.error = "edit"]}
                        /\ UNCHANGED msgs
  /\ UNCHANGED <<uc, users, roster, posts, rh, np, timers, sw>>

M_ClearRequest_WritesSnapshot(doc, postData) == [postData EXCEPT !.updateRequested = FALSE]

\* if (postData.updateRequested) updateData.updateRequested = false
ClearRequest(doc, postData) ==
  [doc EXCEPT !.updateRequested = IF postData.updateRequested THEN FALSE ELSE @]

\* update({lastUpdated, _isInternalUpdate: true, updateRequested?}), then setTimeout
UHWrite(h) ==
  /\ h \in uh /\ h.pc = "write"
  /\ \E ok \in BOOLEAN :
       IF ok
         THEN /\ Commit(h.post, [ClearRequest(posts[h.post], h.postData) EXCEPT
                                   !.lastUpdated = TRUE, !.isInternalUpdate = TRUE],
                        TRUE, "updateWrite", uh \ {h}, np, hist)
              /\ timers' = [timers EXCEPT ![h.post] = @ + 1]
         ELSE /\ uh' = (uh \ {h}) \cup {[h EXCEPT !.pc = "errwrite", !.error = "write"]}
              /\ UNCHANGED <<posts, np, hist, timers>>
  /\ UNCHANGED <<uc, users, roster, msgs, rh, sw>>

\* the catch block: update({updateError, updateErrorAt, _isInternalUpdate: true,
\* updateRequested?}); no timer is set on this path
UHErrWrite(h) ==
  /\ h \in uh /\ h.pc = "errwrite"
  /\ \E ok \in BOOLEAN :
       IF ok
         THEN Commit(h.post, [ClearRequest(posts[h.post], h.postData) EXCEPT
                                !.updateError = h.error, !.isInternalUpdate = TRUE],
                     TRUE, "updateError", uh \ {h}, np, hist)
         ELSE /\ uh' = uh \ {h}
              /\ hist' = [hist EXCEPT !.unhandled = @ \cup {"update"}]
              /\ UNCHANGED <<posts, np>>
  /\ UNCHANGED <<uc, users, roster, msgs, rh, timers, sw>>

\* the setTimeout callback: update({_isInternalUpdate: false})
TimerFire(p) ==
  /\ timers[p] > 0
  /\ timers' = [timers EXCEPT ![p] = @ - 1]
  /\ \E ok \in BOOLEAN :
       IF ok
         THEN Commit(p, [posts[p] EXCEPT !.isInternalUpdate = FALSE],
                     posts[p].isInternalUpdate, "timer", uh, np, hist)
         ELSE /\ hist' = [hist EXCEPT !.unhandled = @ \cup {"timer"}]
              /\ UNCHANGED <<posts, uh, np>>
  /\ UNCHANGED <<uc, users, roster, msgs, rh, sw>>

\* the store and the channel before any record exists
Init ==
  /\ users = {}
  /\ roster = [exists |-> TRUE, lastUpdated |-> 0,
               scheduled |-> <<EmptyRoam("r1"), EmptyRoam("r2")>>]
  /\ posts = [p \in PostIds |-> NoPost]
  /\ msgs = [m \in MsgIds |-> NoMessage]
  /\ rh = {}
  /\ np = [p \in PostIds |-> IdleNewPost]
  /\ uh = {}
  /\ timers = [p \in PostIds |-> 0]
  /\ sw = IdleSweep
  /\ uc = NoCache
  /\ hist = NoHistory

\* the accounts change, ids are resolved, time passes, the cache is cleared or cleaned
NextCache ==
  \/ \E u \in UserIds : RegisterUser(u)
  \/ \E u \in UserIds : UnregisterUser(u)
  \/ \E u \in UserIds : GetFirebaseUserId(u)
  \/ \E u \in UserIds : UserQueryReturns(u)
  \/ \E u \in UserIds : EntryAges(u)
  \/ ClearCache
  \/ Cleanup

SpecCache == Init /\ [][NextCache]_vars

\* the change listeners followed on one record (the handlers share no state
\* across records) that carries no roamId
ListenerPosts == {"p1"}

NextListener ==
  \/ \E p \in ListenerPosts : CreatePost(p, None)
  \/ \E p \in ListenerPosts : RequestPostUpdate(p)
  \/ \E p \in ListenerPosts : DeletePost(p)
  \/ \E p \in PostIds : NPSend(p)
  \/ \E p \in PostIds : NPReact(p)
  \/ \E p \in PostIds : NPWrite(p)
  \/ \E p \in PostIds : NPErrWrite(p)
  \/ \E h \in uh : UHEdit(h)
  \/ \E h \in uh : UHWrite(h)
  \/ \E h \in uh : UHErrWrite(h)
  \/ \E p \in PostIds : TimerFire(p)

SpecListener == Init /\ [][NextListener]_vars

\* ------------------------------------------------------------ legacy update listener
\* setupPostUpdateListener of services/firestoreListeners.js:
\* where('updateRequested','==',true), if (change.type === 'modified').  A
\* document that enters the query result is reported as 'added', one that was
\* in it and stays in it as 'modified'
LegacyUpdateChange(old, new, changed) ==
  old.status # "none" /\ old.updateRequested /\ new.updateRequested /\ changed

\* a write to document p and the handler the legacy listener starts for it
LegacyCommit(p, new, changed, cause, uhBase, histBase) ==
  LET old == posts[p]
      modified == LegacyUpdateChange(old, new, changed)
      n == histBase.nextUH
  IN  /\ posts' = [posts EXCEPT ![p] = new]
      /\ uh' = uhBase \cup (IF modified THEN {UpdateHandler(n, p, new, "legacy", cause)} ELSE {})
      /\ hist' = [histBase EXCEPT !.nextUH = n + (IF modified THEN 1 ELSE 0)]

\* requestPostUpdate(postId, updateData) under the legacy listener
LegacyRequestPostUpdate(p) ==
  /\ posts[p].status # "none"
  /\ hist.requests[p] < MaxRequests
  /\ LegacyCommit(p, [posts[p] EXCEPT !.updateRequested = TRUE, !.content = @ + 1],
                  TRUE, "external", uh, [hist EXCEPT !.requests[p] = @ + 1])
  /\ UNCHANGED <<uc, users, roster, msgs, rh, np, timers, sw>>

\* DELETE /api/discord/post/:postId under the legacy listener
LegacyDeletePost(p) ==
  /\ posts[p].status \notin {"none", "deleted"}
  /\ LegacyCommit(p, [posts[p] EXCEPT !.status = "deleted"], TRUE, "external", uh, hist)
  /\ UNCHANGED <<uc, users, roster, msgs, rh, np, timers, sw>>

\* update({updateRequested: false, lastUpdated})
LegacyUHWrite(h) ==
  /\ h \in uh /\ h.pc = "write"
  /\ \E ok \in BOOLEAN :
       IF ok
         THEN LegacyCommit(h.post, [posts[h.post] EXCEPT !.updateRequested = FALSE,
                                                         !.lastUpdated = TRUE],
                           TRUE, "updateWrite", uh \ {h}, hist)
         ELSE /\ uh' = (uh \ {h}) \cup {[h EXCEPT !.pc = "errwrite", !.error = "write"]}
              /\ UNCHANGED <<posts, hist>>
  /\ UNCHANGED <<uc, users, roster, msgs, rh, np, timers, sw>>

\* the catch block: update({updateRequested: false, updateError, updateErrorAt});
\* a rejection of this update is not caught by anything
LegacyUHErrWrite(h) ==
  /\ h \in uh /\ h.pc = "errwrite"
  /\ \E ok \in BOOLEAN :
       IF ok
         THEN LegacyCommit(h.post, [posts[h.post] EXCEPT !.updateRequested = FALSE,
                                                         !.updateError = h.error],
                           TRUE, "updateError", uh \ {h}, hist)
         ELSE /\ uh' = uh \ {h}
              /\ hist' = [hist EXCEPT !.unhandled = @ \cup {"update"}]
              /\ UNCHANGED posts
  /\ UNCHANGED <<uc, users, roster, msgs, rh, np, timers, sw>>

\* a record whose send failed: status error, no message
ErrorPost(content, roamId) ==
  [PendingPost(content, roamId) EXCEPT !.status = "error", !.error = "send", !.errorAt = TRUE]

\* one posted announcement and one record whose first send failed
InitLegacy ==
  /\ users = {}
  /\ roster = [exists |-> TRUE, lastUpdated |-> 0,
               scheduled |-> <<EmptyRoam("r1"), EmptyRoam("r2")>>]
  /\ posts = [p \in PostIds |-> IF p = "p1" THEN PostedPost(1, None, "m1")
                                             ELSE ErrorPost(1, None)]
  /\ msgs = [m \in MsgIds |-> IF m = "m1" THEN SentMessage("p1", PendingPost(1, None))
                                          ELSE NoMessage]
  /\ rh = {}
  /\ np = [p \in PostIds |-> IdleNewPost]
  /\ uh = {}
  /\ timers = [p \in PostIds |-> 0]
  /\ sw = IdleSweep
  /\ uc = NoCache
  /\ hist = NoHistory

NextLegacy ==
  \/ \E p \in PostIds : LegacyRequestPostUpdate(p)
  \/ \E p \in PostIds : LegacyDeletePost(p)
  \/ \E h \in uh : UHEdit(h)
  \/ \E h \in uh : LegacyUHWrite(h)
  \/ \E h \in uh : LegacyUHErrWrite(h)

SpecLegacy == InitLegacy /\ [][NextLegacy]_vars

\* ------------------------------------------------------------ reactions on a fresh message
\* the roamId of the announcement: an Event of the roster, none, or an id that
\* names no Event
AnnouncedRoamIds == {"r1", None, "r9"}

\* one record is created and posted while users react to its message; every
\* reaction event is delivered
NextFresh ==
  \/ \E roamId \in AnnouncedRoamIds : CreatePost("p1", roamId)
  \/ \E p \in PostIds : NPSend(p)
  \/ \E p \in PostIds : NPReact(p)
  \/ \E p \in PostIds : NPWrite(p)
  \/ \E p \in PostIds : NPErrWrite(p)
  \/ \E m \in MsgIds, u \in UserIds : ReactionAddWith(m, u, TRUE)
  \/ \E m \in MsgIds, u \in UserIds : ReactionRemoveWith(m, u, TRUE)
  \/ \E h \in rh : RHUpdateCount(h)
  \/ \E h \in rh : RHGetUser(h)
  \/ \E h \in rh : RHGetPost(h)
  \/ \E h \in rh : RHGetRoam(h)
  \/ \E h \in rh : RHWriteRoam(h)

SpecFresh == Init /\ [][NextFresh]_vars

\* ------------------------------------------------------------ content edits
\* a writer changes title, description, additionalInfo or roamDetails of a
\* record without touching updateRequested
ModifyContent(p) ==
  /\ posts[p].status # "none"
  /\ posts[p].content < MaxContent
  /\ Commit(p, [posts[p] EXCEPT !.content = @ + 1], TRUE, "external", uh, np, hist)
  /\ UNCHANGED <<uc, users, roster, msgs, rh, timers, sw>>

\* a posted record whose content is edited, with and without update requests
NextContent ==
  \/ \E p \in ListenerPosts : ModifyContent(p)
  \/ \E p \in ListenerPosts : RequestPostUpdate(p)
  \/ \E h \in uh : UHEdit(h)
  \/ \E h \in uh : UHWrite(h)
  \/ \E h \in uh : UHErrWrite(h)
  \/ \E p \in PostIds : TimerFire(p)

\* a record that is modified, update-requested and soft-deleted at any time,
\* also while its new-post handler is in flight
NextPending ==
  \/ \E p \in ListenerPosts : CreatePost(p, None)
  \/ \E p \in ListenerPosts : ModifyContent(p)
  \/ \E p \in ListenerPosts : RequestPostUpdate(p)
  \/ \E p \in ListenerPosts : DeletePost(p)
  \/ \E p \in PostIds : NPSend(p)
  \/ \E p \in PostIds : NPReact(p)
  \/ \E p \in PostIds : NPWrite(p)
  \/ \E p \in PostIds : NPErrWrite(p)
  \/ \E h \in uh : UHEdit(h)
  \/ \E h \in uh : UHWrite(h)
  \/ \E h \in uh : UHErrWrite(h)
  \/ \E p \in PostIds : TimerFire(p)

SpecPending == Init /\ [][NextPending]_vars

\* ------------------------------------------------------------ sweep
\* the documents in the order the query returns them
RECURSIVE DocsOf(_)
DocsOf(ps) ==
  IF ps = {} THEN <<>>
  ELSE LET p == CHOOSE x \in ps : \A y \in ps : x = y \/ ~(y = "p1")
       IN  <<[post |-> p, messageId |-> posts[p].discordMessageId]>> \o DocsOf(ps \ {p})

PostedWithMessage == {p \in PostIds : posts[p].status = "posted" /\ posts[p].discordMessageId # None}

\* syncAllReactionCounts: where('status','==','posted').where('discordMessageId','!=',null).get()
SweepStart ==
  /\ sw.pc \in {"idle", "done"}
  /\ \E ok \in BOOLEAN :
       sw' = IF ok
               THEN [IdleSweep EXCEPT !.pc = IF PostedWithMessage = {} THEN "done" ELSE "fetch",
                                      !.docs = DocsOf(PostedWithMessage),
                                      !.started = PostedWithMessage, !.startedQuiet = (rh = {}),
                                      !.eventsAtStart = hist.events]
               ELSE IdleSweep
  /\ UNCHANGED <<uc, users, roster, posts, msgs, rh, np, uh, timers, hist>>

\* message.reactions.cache: the symbols with at least one reaction, with their counts
ReactionStatKeys(m) ==
  (IF LiveCount(m) > 0 THEN {"ack"} ELSE {}) \cup (IF msgs[m].others > 0 THEN {"other"} ELSE {})
ReactionStats(m) ==
  [e \in Emojis |-> IF e = "ack" THEN LiveCount(m) ELSE msgs[m].others]

\* the loop moves on to the next document
SweepAdvance(s) ==
  [s EXCEPT !.docs = Tail(s.docs), !.pc = IF Len(s.docs) = 1 THEN "done" ELSE "fetch"]

M_SweepSkip_Abort(s) == [s EXCEPT !.docs = <<>>, !.pc = "done"]

\* catch (error) { console.warn(...) }: the loop goes on with the next document
SweepSkip(s) == SweepAdvance(s)

\* getMessageReactionStats(messageId); a failure is logged and the record skipped
SweepFetch ==
  /\ sw.pc = "fetch"
  /\ \E ok \in BOOLEAN :
       LET m == Head(sw.docs).messageId
       IN  sw' = IF ok /\ msgs[m].exists
                   THEN [sw EXCEPT !.pc = "write", !.stats = ReactionStats(m),
                                   !.statKeys = ReactionStatKeys(m)]
                   ELSE SweepSkip(sw)
  /\ UNCHANGED <<uc, users, roster, posts, msgs, rh, np, uh, timers, hist>>

M_SweepUpdate_Increment(doc, stats, statKeys) ==
  [doc EXCEPT !.reactions = [e \in Emojis |-> doc.reactions[e] + stats[e]],
              !.reactionKeys = statKeys]

\* doc.ref.update({reactions: reactionStats, lastReactionSync})
SweepUpdate(doc, stats, statKeys) ==
  [doc EXCEPT !.reactions = stats, !.reactionKeys = statKeys]

SweepWrite ==
  /\ sw.pc = "write"
  /\ \E ok \in BOOLEAN :
       IF ok
         THEN /\ Commit(Head(sw.docs).post,
                        SweepUpdate(posts[Head(sw.docs).post], sw.stats, sw.statKeys),
                        TRUE, "sweep", uh, np, hist)
              /\ sw' = [SweepAdvance(sw) EXCEPT !.syncCount = @ + 1]
         ELSE /\ sw' = SweepSkip(sw)
              /\ UNCHANGED <<posts, uh, np, hist>>
  /\ UNCHANGED <<uc, users, roster, msgs, rh, timers>>

\* two posted announcements without roamId; the stored counts are those of the
\* write-back ({'✅': 0}) while each message carries the bot's own reaction
InitSweep ==
  /\ users = {}
  /\ roster = [exists |-> TRUE, lastUpdated |-> 0,
               scheduled |-> <<EmptyRoam("r1"), EmptyRoam("r2")>>]
  /\ posts = [p \in PostIds |-> IF p = "p1" THEN PostedPost(1, None, "m1")
                                             ELSE PostedPost(1, None, "m2")]
  /\ msgs = [m \in MsgIds |-> IF m = "m1" THEN SentMessage("p1", PendingPost(1, None))
                                          ELSE SentMessage("p2", PendingPost(1, None))]
  /\ rh = {}
  /\ np = [p \in PostIds |-> IdleNewPost]
  /\ uh = {}
  /\ timers = [p \in PostIds |-> 0]
  /\ sw = IdleSweep
  /\ uc = NoCache
  /\ hist = NoHistory

NextSweep ==
  \/ \E m \in MsgIds, u \in UserIds : ReactionAdd(m, u)
  \/ \E m \in MsgIds, u \in UserIds : ReactionRemove(m, u)
  \/ \E m \in MsgIds : ReactionsCleared(m)
  \/ \E h \in rh : RHUpdateCount(h)
  \/ \E h \in rh : RHGetUser(h)
  \/ \E h \in rh : RHGetPost(h)
  \/ SweepStart
  \/ SweepFetch
  \/ SweepWrite

SpecSweep == InitSweep /\ [][NextSweep]_vars

\* ------------------------------------------------------------ roster claims
Roams == {roster.scheduled[i] : i \in 1..Len(roster.scheduled)}

\* C1: in every reachable state, under every interleaving of join handlers,
\* leave handlers and changes of a user's account status, no Discord id is in
\* both signups and guests of one Event.
C1_MutualExclusion ==
  \A roam \in Roams : SeqSet(roam.signups) \cap GuestIds(roam.guests) = {}

\* a guest was promoted while another id stayed a guest: both lists are in use
C1_Witness ==
  /\ \E o \in hist.outcomes : o.outcome = "promoted"
  /\ \E roam \in Roams : roam.signups # <<>> /\ roam.guests # <<>>

\* C2: for every Event, Discord id and registration status, handling a join
\* a second time after the first has completed changes neither signups nor
\* guests and asks for no roster write.
C2_IdempotentJoin ==
  \A roam \in Roams, u \in UserIds, isRegisteredUser \in BOOLEAN :
    LET first == SignupRoam(roam, u, isRegisteredUser, "Unknown")
        second == SignupRoam(first.roam, u, isRegisteredUser, "Unknown")
    IN  ~second.write /\ second.roam = first.roam

\* a join of some id changed the roster and a later join of the same id, with
\* the same registration status, returned without a write
C2_Witness ==
  \E o1, o2 \in hist.outcomes :
    /\ o1.kind = "add" /\ o2.kind = "add" /\ o1.user = o2.user
    /\ o1.isRegisteredUser = o2.isRegisteredUser
    /\ o1.outcome \in {"wrote", "promoted"} /\ o2.outcome = "noop"
    /\ roster.lastUpdated = 1

\* C3: a join handled for a known account whose id is listed in the Event's
\* guests removes the id from guests and adds it to signups in one roster
\* write; after the write the id is in signups exactly once and not in guests.
C3_Promotion ==
  [][\A h \in rh :
       ( /\ h.pc = "write" /\ h.kind = "add" /\ h.isRegisteredUser
         /\ h.user \in GuestIds(h.read[h.idx].guests)
         /\ h \notin rh' /\ roster'.lastUpdated # roster.lastUpdated )
       => LET roam == roster'.scheduled[FindIndex(roster'.scheduled, h.roamId)]
          IN  /\ Occurrences(roam.signups, h.user) = 1
              /\ h.user \notin GuestIds(roam.guests)]_vars

\* a promotion has been written and the roster shows it
C3_Witness ==
  \E o \in hist.outcomes, roam \in Roams :
    /\ o.outcome = "promoted"
    /\ Includes(roam.signups, o.user) /\ o.user \notin GuestIds(roam.guests)

\* ------------------------------------------------------------ listener claims
\* updateDiscordMessage has been called by the handler
EditDispatched(h) == h.pc = "write" \/ (h.pc = "errwrite" /\ h.error \in {"edit", "write"})

\* C4: no store write made by the engine itself (the update write-back, the
\* error write-back, the delayed write that clears _isInternalUpdate) causes
\* another channel edit to be dispatched.
C4_LoopPrevention ==
  \A h \in uh : h.cause \in {"updateWrite", "updateError", "timer"} => ~EditDispatched(h)

C7_ErrorRecorded ==
  \A p \in PostIds :
    /\ Cardinality(SentFor(p)) <= 1
    /\ (np[p].pc \in {"done", "crashed"} /\ np[p].error # None)
         => /\ posts[p].error = np[p].error /\ posts[p].errorAt
            /\ \E i \in 1..Len(hist.statusWrites[p]) : hist.statusWrites[p][i].to = "error"

\* C8: the change listener makes exactly one status transition for a record,
\* out of pending, to posted or to error.
C8_ExactlyOneTransition ==
  \A p \in PostIds :
    /\ Len(hist.statusWrites[p]) <= 1
    /\ \A i \in 1..Len(hist.statusWrites[p]) : hist.statusWrites[p][i].from = "pending"
    /\ np[p].pc \in {"done", "crashed"} => Len(hist.statusWrites[p]) = 1

\* C9: updateRequested is never left true with no handler pending.
C9_RequestCleared ==
  \A p \in PostIds : posts[p].updateRequested => \E h \in uh : h.post = p

\* C10: once a record's status is deleted, no step changes it again.
C10_DeletedTerminal ==
  [][\A p \in PostIds : posts[p].status = "deleted" => posts'[p].status = "deleted"]_vars

\* ------------------------------------------------------------ sweep claims
Converged(p) == StoredCount(p) = LiveCount(posts[p].discordMessageId)

QuietSinceSweep == sw.startedQuiet /\ hist.events = sw.eventsAtStart

WritesRoster(h) ==
  h \in rh /\ h.pc = "write" /\ h \notin rh' /\ roster'.lastUpdated # roster.lastUpdated

\* the handler h makes its reaction-count write in this step
WritesCount(h) ==
  /\ h \in rh /\ h.pc = "count" /\ PostsWithMessage(h.msg) # {}
  /\ \/ [h EXCEPT !.pc = "user", !.found = TRUE] \in rh'
     \/ (h.kind = "clear" /\ h \notin rh' /\ posts' # posts)

\* the Event that h changes, as the roster holds it before and after the step
EventBefore(h) == roster.scheduled[h.idx]
EventAfter(h) == roster'.scheduled[h.idx]

Leave(roam, u) == UnsignupRoam(roam, u, u \in users).roam

\* C12: a leave event for U removes U from the Event's signups whenever U is
\* there, and otherwise removes U's entry from guests, whether or not U
\* resolves to a known account.
C12_Leave ==
  \A roam \in Roams, u \in UserIds :
    IF Includes(roam.signups, u)
      THEN ~Includes(Leave(roam, u).signups, u) /\ Leave(roam, u).guests = roam.guests
      ELSE u \notin GuestIds(Leave(roam, u).guests) /\ Leave(roam, u).signups = roam.signups

\* C13: a leave for an id that is in neither list, in particular a second
\* leave after a first that removed it, performs no roster write and leaves
\* the roster unchanged.
C13_IdempotentLeave ==
  \A roam \in Roams, u \in UserIds, isRegisteredUser \in BOOLEAN :
    LET first == UnsignupRoam(roam, u, isRegisteredUser)
        second == UnsignupRoam(first.roam, u, isRegisteredUser)
    IN  /\ (~Includes(roam.signups, u) /\ u \notin GuestIds(roam.guests))
             => (~first.write /\ first.roam = roam)
        /\ first.write => (~second.write /\ second.roam = first.roam)

\* a leave removed an id and a second leave for the same id returned before the write
C13_Witness ==
  /\ roster.lastUpdated = 1
  /\ \E o1, o2 \in hist.outcomes :
       /\ o1.kind = "remove" /\ o2.kind = "remove" /\ o1.user = o2.user
       /\ o1.outcome = "wrote" /\ o2.outcome = "noop"
       /\ \A roam \in Roams : ~Includes(roam.signups, o1.user) /\ o1.user \notin GuestIds(roam.guests)

\* C14: a reactions-cleared event on a tracked message sets the record's
\* stored count to 0 and leaves the roster document unchanged; its handler
\* never goes on to the roster.
C14_RemoveAll ==
  [][\A h \in rh :
       h.kind = "clear"
         => /\ h.pc = "count"
            /\ (h \notin rh') => (roster' = roster /\ \A g \in rh' : g.id # h.id)
            /\ WritesCount(h) => posts'[FirstPostWithMessage(h.msg)].reactions["ack"] = 0]_vars

\* a message that carried reactions was cleared while its Event has members
C14_Witness ==
  /\ StoredCount("p1") = 0 /\ LiveCount("m1") = 0
  /\ \E roam \in Roams : roam.signups # <<>> \/ roam.guests # <<>>
  /\ hist.events = 2 /\ rh = {}
  /\ \E o \in hist.outcomes : o.kind = "add" /\ o.outcome = "wrote"

\* C15: each id occurs at most once in an Event's signups and at most once in
\* its guests, also when a join event is delivered more than once and the
\* duplicate handlers run concurrently.
C15_Uniqueness ==
  \A roam \in Roams, u \in UserIds :
    Occurrences(roam.signups, u) <= 1 /\ GuestOccurrences(roam.guests, u) <= 1

\* two handlers of the same join have both written the roster
C15_Witness ==
  /\ roster.lastUpdated = 2 /\ hist.events = 2
  /\ \E u \in UserIds, isRegisteredUser \in BOOLEAN :
       /\ hist.outcomes = {[kind |-> "add", user |-> u, isRegisteredUser |-> isRegisteredUser,
                            outcome |-> "wrote"]}
       /\ \E roam \in Roams :
            Occurrences(roam.signups, u) + GuestOccurrences(roam.guests, u) = 1

\* the step moves u from the signups of the i-th Event to its guests
Demotes(i, u) ==
  /\ Includes(roster.scheduled[i].signups, u)
  /\ ~Includes(roster'.scheduled[i].signups, u)
  /\ u \in GuestIds(roster'.scheduled[i].guests)

\* C16: no step moves an id from an Event's signups to its guests, and a join
\* handled for an id that is in signups but has no account changes neither list.
C16_NoDemotion ==
  /\ [](\A roam \in Roams, u \in UserIds :
          Includes(roam.signups, u) => GuestSignup(roam, u, "Unknown") = [write |-> FALSE, roam |-> roam])
  /\ [][\A i \in 1..Len(roster.scheduled), u \in UserIds : ~Demotes(i, u)]_vars

\* u is a member of some Event of the roster
Member(u) == \E roam \in Roams : Includes(roam.signups, u) \/ u \in GuestIds(roam.guests)

\* C17: the roster read-modify-write is unguarded: a handler's write replaces
\* the whole scheduled list by the copy it read with its own Event changed,
\* whatever other handlers have written since the read.
C17_UnguardedWrite ==
  [][\A h \in rh :
       WritesRoster(h)
         => /\ roster'.scheduled = [h.read EXCEPT ![h.idx] = RoamChange(h, h.read[h.idx]).roam]
            /\ \A i \in 1..Len(h.read) : i # h.idx => roster'.scheduled[i] = h.read[i]]_vars

\* two joins of distinct users have both written without error and the roster
\* lacks one of them
C17_Witness ==
  /\ rh = {} /\ roster.lastUpdated = 2
  /\ \E o1, o2 \in hist.outcomes :
       /\ o1.kind = "add" /\ o2.kind = "add" /\ o1.user # o2.user
       /\ o1.outcome = "wrote" /\ o2.outcome = "wrote"
       /\ Member(o1.user) /\ ~Member(o2.user)

\* the handler g has made its reaction-count write
Counted(g) == g.pc \in {"user", "post", "roam", "write"}

\* C18: for two reaction events on one message delivered in the order e1, e2
\* (handler ids are delivery order), the count write of e1's handler takes
\* effect before that of e2's handler, so the stored count ends as e2's.
C18_PerRecordOrdering ==
  [][\A h \in rh :
       WritesCount(h)
         => \A g \in rh : (g.msg = h.msg /\ g.id > h.id) => ~Counted(g)]_vars

\* the handler h edits the channel message in this step
EditsMessage(h) == h \in uh /\ h.pc = "edit" /\ [h EXCEPT !.pc = "write"] \in uh'

\* C19: for two update triggers on one record delivered in order (handler ids
\* are dispatch order), the edits reach the channel in that order, so the
\* message is never left showing content older than a later trigger's.
C19_UpdateOrdering ==
  [][\A h \in uh :
       EditsMessage(h)
         => \A g \in uh : (g.post = h.post /\ g.id > h.id /\ g.pc = "write")
                            => h.postData.content >= g.postData.content]_vars

\* C20: a failure of a store or channel call made in a handler, the writes of
\* its error path and the delayed write that clears _isInternalUpdate
\* included, never escapes the handler as an unhandled rejection.
C20_ErrorContainment == hist.unhandled = {}

\* ------------------------------------------------------------ sweep after dropped events
\* one posted announcement of Event r1, nobody signed up, nobody has reacted;
\* every reaction event is delivered to its handler
InitRecovery == InitRoster /\ roster.scheduled[1].guests = <<>>

NextRecovery ==
  \/ \E m \in MsgIds, u \in UserIds : ReactionAddWith(m, u, TRUE)
  \/ \E m \in MsgIds, u \in UserIds : ReactionRemoveWith(m, u, TRUE)
  \/ \E h \in rh : RHUpdateCount(h)
  \/ \E h \in rh : RHGetUser(h)
  \/ \E h \in rh : RHGetPost(h)
  \/ \E h \in rh : RHGetRoam(h)
  \/ \E h \in rh : RHWriteRoam(h)
  \/ SweepStart
  \/ SweepFetch
  \/ SweepWrite

SpecRecovery == InitRecovery /\ [][NextRecovery]_vars

\* the Event of record p lists exactly the users whose reaction is on its message
MembershipMatches(p) ==
  LET i == FindIndex(roster.scheduled, posts[p].roamId)
      roam == roster.scheduled[i]
  IN  i # 0 =>
        \A u \in UserIds :
          (u \in msgs[posts[p].discordMessageId].reactors)
            <=> (Includes(roam.signups, u) \/ u \in GuestIds(roam.guests))

\* a sweep has completed in which every fetch and write succeeded, begun with
\* no handler in flight and with no reaction changed since
SweepSucceeded ==
  sw.pc = "done" /\ QuietSinceSweep /\ sw.syncCount = Cardinality(sw.started) /\ rh = {}

\* C21: when a reaction event was dropped because a call of its handler
\* failed, after a later sweep that succeeds the record's count and the Event's
\* membership are what successful handling would have produced.
C21_SweepRecovery ==
  SweepSucceeded => \A p \in sw.started : Converged(p) /\ MembershipMatches(p)

\* the sweep leaves the document at the head of snapshot.docs in this step
LeavesDocument == sw.pc \in {"fetch", "write"} /\ sw'.docs # sw.docs

\* C22: the sweep's return value counts exactly the records whose snapshot was
\* fetched and written; a fetch or write failure for a record leaves that
\* record unchanged and the loop goes on to the record after it.
C22_SweepCount ==
  [][LeavesDocument =>
       LET p == Head(sw.docs).post
       IN  /\ sw'.docs = Tail(sw.docs)
           /\ sw'.pc = (IF Tail(sw.docs) = <<>> THEN "done" ELSE "fetch")
           /\ IF sw.pc = "write" /\ sw'.syncCount = sw.syncCount + 1
                THEN posts'[p].reactions = sw.stats
                ELSE sw'.syncCount = sw.syncCount /\ posts'[p] = posts[p]]_vars

\* the sweep skipped its first record, corrected its second and returned 1
C22_Witness ==
  /\ sw.pc = "done" /\ sw.started = {"p1", "p2"} /\ sw.syncCount = 1
  /\ hist.events = 0
  /\ StoredCount("p1") = 0 /\ StoredCount("p2") = 1

\* C23: the key set of every record's reactions map is the single
\* acknowledgement symbol.
C23_ReactionKeys ==
  \A p \in PostIds : posts[p].status # "none" => posts[p].reactionKeys = {"ack"}

\* the change listener has written status=posted on record p
WasPosted(p) == \E i \in 1..Len(hist.statusWrites[p]) : hist.statusWrites[p][i].to = "posted"

\* C24 (as claimed): a record has discordMessageId set if and only if its
\* status is posted or it entered error after having been posted.
C24_MessageIdIffPosted ==
  \A p \in PostIds :
    (posts[p].discordMessageId # None)
      <=> (posts[p].status = "posted" \/ (posts[p].status = "error" /\ WasPosted(p)))

\* C24 (amended): a record has discordMessageId set if and only if its status
\* is posted, or it entered error or deleted after having been posted; a
\* record in pending, or in error because its first send failed, has none.
C24_MessageIdIffWasPosted ==
  \A p \in PostIds :
    /\ (posts[p].discordMessageId # None)
         <=> (posts[p].status = "posted"
                \/ (posts[p].status \in {"error", "deleted"} /\ WasPosted(p)))
    /\ posts[p].status = "pending" => posts[p].discordMessageId = None
    /\ (posts[p].status = "error" /\ np[p].error = "send") => posts[p].discordMessageId = None

\* a posted record has been soft-deleted and keeps its message id
C24_Witness ==
  \E p \in PostIds :
    posts[p].status = "deleted" /\ WasPosted(p) /\ posts[p].discordMessageId \in SentFor(p)

\* C25: after a handling of an update trigger that set _isInternalUpdate, on
\* the success path and the failure path alike, the flag is reset without a
\* further external write: while it is true a delayed reset or a handler of
\* the record is still pending.
C25_InternalUpdateReset ==
  \A p \in PostIds :
    posts[p].isInternalUpdate => (timers[p] > 0 \/ \E h \in uh : h.post = p)

\* C26: an update trigger on a record that has no discordMessageId never
\* invokes the edit; once its handler has returned the record carries
\* updateError and updateRequested is cleared.
C26_UpdateWithoutMessage ==
  /\ \A h \in uh : h.postData.discordMessageId = None => ~EditDispatched(h)
  /\ \A p \in PostIds :
       (posts[p].discordMessageId = None /\ hist.requests[p] > 0 /\ ~\E h \in uh : h.post = p)
         => (posts[p].updateError = "nomessageid" /\ ~posts[p].updateRequested)

\* ------------------------------------------------------------ cache claims
\* a getFirebaseUserId call answers in this step
Answers(u) ==
  /\ uc'.last.user = u
  /\ \/ (u \in uc.pending /\ u \notin uc'.pending)
     \/ (uc'.last.path = "hit" /\ uc'.last # uc.last)

\* C27: negative results are not cached: a resolve of an id that has no
\* account answers absent and adds no entry, no entry ever holds an absent
\* result, and a resolve of an id that has an account answers the account
\* unless its own query fails.
C27_NoNegativeCaching ==
  /\ [](\A u \in UserIds : uc.cache[u].cached => uc.cache[u].firebaseId # None)
  /\ [][\A u \in UserIds :
          Answers(u) =>
            /\ uc'.last.path = "absent" => (uc'.last.result = None /\ uc'.cache = uc.cache)
            /\ (u \in users /\ uc'.last.path # "failed") => uc'.last.result = u]_vars

\* an id that was answered absent is answered with its account by a query
C27_Witness ==
  /\ uc.last.path = "found" /\ uc.last.user \in uc.missed
  /\ uc.last.result = uc.last.user /\ CacheHit(uc.cache, uc.last.user)

JoinedWithAccount(u) ==
  \E o \in hist.outcomes :
    o.kind = "add" /\ o.user = u /\ o.isRegisteredUser /\ o.outcome \in {"wrote", "promoted"}

\* C29: a join handled for an id that has no users document never adds the id
\* to signups: isRegisteredUser is userDoc.exists as the handler read it, and
\* every id in an Event's signups was written by a join that found an account.
C29_RegisteredOnly ==
  /\ [](\A roam \in Roams, u \in UserIds : Includes(roam.signups, u) => JoinedWithAccount(u))
  /\ [][\A h \in rh, g \in rh' :
          (h.pc = "user" /\ g.id = h.id /\ g.pc = "post")
            => g.isRegisteredUser = (h.user \in users)]_vars

\* an account-less id has joined as a guest beside a registered signup
C29_Witness ==
  \E o \in hist.outcomes, roam \in Roams :
    /\ o.kind = "add" /\ ~o.isRegisteredUser /\ o.outcome = "wrote"
    /\ o.user \in GuestIds(roam.guests) /\ ~Includes(roam.signups, o.user)
    /\ \E u \in UserIds : Includes(roam.signups, u) /\ JoinedWithAccount(u)

\* the fields of a record that an update must leave alone
Identity(doc) ==
  <<doc.discordMessageId, doc.discordChannelId, doc.discordUrl, doc.status,
    doc.reactions, doc.reactionKeys>>

\* C30: a step of an update handler sends no message, changes no message
\* other than the one named by the record's discordMessageId, and leaves the
\* record's discordMessageId, discordChannelId, discordUrl, status and
\* reactions unchanged.
C30_UpdateFrame ==
  [][\A h \in uh :
       h \notin uh'
         => /\ \A m \in MsgIds : msgs'[m].exists = msgs[m].exists /\ msgs'[m].sentFor = msgs[m].sentFor
            /\ \A m \in MsgIds : msgs'[m] # msgs[m] => (h.pc = "edit" /\ m = posts[h.post].discordMessageId)
            /\ \A p \in PostIds : Identity(posts'[p]) = Identity(posts[p])]_vars

\* an update has edited the record's message to its new content and written back
C30_Witness ==
  \E p \in PostIds :
    /\ posts[p].status = "posted" /\ posts[p].lastUpdated /\ posts[p].content > 1
    /\ posts[p].discordMessageId \in SentFor(p)
    /\ msgs[posts[p].discordMessageId].body.content = posts[p].content
    /\ Cardinality(SentFor(p)) = 1

\* ------------------------------------------------------------ legacy listener claims
\* C31: under the update listener of services/firestoreListeners.js, a write
\* that sets updateRequested to true on a posted record whose updateRequested
\* was false starts an update handler for the record, and while the record's
\* updateRequested is true a handler that will edit the message and clear the
\* flag is pending.
C31_RequestDetected ==
  /\ [][\A p \in PostIds :
          (posts[p].status = "posted" /\ ~posts[p].updateRequested /\ posts'[p].updateRequested)
            => \E h \in uh' \ uh : h.post = p /\ h.pc = "edit"]_vars
  /\ [](\A p \in PostIds :
          (posts[p].status = "posted" /\ posts[p].updateRequested) => \E h \in uh : h.post = p)

\* ------------------------------------------------------------ consistency claims
\* no handler of any kind is in flight
AllHandlersCompleted ==
  /\ rh = {} /\ uh = {}
  /\ sw.pc \in {"idle", "done"}
  /\ \A p \in PostIds : np[p].pc \in {"idle", "done", "crashed"}

\* C32: whenever all handlers have completed, every posted record's stored
\* count of the acknowledgement symbol equals the live count on its message,
\* from the moment the record becomes posted onwards.
C32_EventuallyConsistent ==
  AllHandlersCompleted => \A p \in PostIds : posts[p].status = "posted" => Converged(p)

\* ------------------------------------------------------------ monitoring claims
\* the step is a reaction event that the monitoring discards
DiscardedEvent ==
  /\ hist'.events = hist.events + 1
  /\ \/ hist'.lastEvent.user = BotId
     \/ hist'.lastEvent.channelId # TargetChannelId
     \/ hist'.lastEvent.emoji # "ack"

\* C33: a reaction-added or reaction-removed event from the bot's own account,
\* from a channel other than the configured one or with a symbol other than
\* the acknowledgement symbol starts no handler and writes neither the record
\* store nor the roster; every write of the store or the roster by a reaction
\* handler belongs to an event of a user, in the configured channel, with the
\* acknowledgement symbol.
C33_FilteredEvents ==
  /\ [][DiscardedEvent => UNCHANGED <<posts, roster, rh, uh, np>>]_vars
  /\ [][(posts' # posts \/ roster' # roster)
          => \E h \in rh : h \notin rh' /\ h.user \in UserIds /\ msgs[h.msg].exists]_vars

\* a user's acknowledgement was recorded on the record and in the Event while
\* another symbol is on the same message
C33_Witness ==
  /\ msgs["m1"].others = 1 /\ hist.lastEvent.emoji = "other"
  /\ rh = {} /\ StoredCount("p1") = 2
  /\ \E o \in hist.outcomes : o.kind = "add" /\ o.outcome = "wrote"

\* ------------------------------------------------------------ lookup claims
\* the reaction handler h takes a step
Steps(h) == h \in rh /\ h \notin rh'

\* the record of h's message names no Event: it has no roamId or its roamId is
\* not in the roster
NamesNoEvent(h) ==
  /\ PostsWithMessage(h.msg) # {}
  /\ LET roamId == posts[FirstPostWithMessage(h.msg)].roamId
     IN  roamId = None \/ FindIndex(roster.scheduled, roamId) = 0

\* C34: the handler of a reaction event for whose message id the lookup of
\* updateReactionCount finds no record writes neither the record store nor
\* the roster; the handler of an event on a record that has no
\* roamId, or whose roamId names no Event, stores the event's count and leaves
\* the roster unchanged.
C34_UnknownMessage ==
  /\ [][\A h \in rh :
          (Steps(h) /\ (IF h.pc = "count" THEN PostsWithMessage(h.msg) = {} ELSE ~h.found))
            => (posts' = posts /\ roster' = roster)]_vars
  /\ [][\A h \in rh :
          (Steps(h) /\ NamesNoEvent(h))
            => /\ roster' = roster
               /\ WritesCount(h) => posts'[FirstPostWithMessage(h.msg)].reactions["ack"] = h.count]_vars

\* ------------------------------------------------------------ content claims
SpecContent == InitRecovery /\ [][NextContent]_vars

\* the step changes the content of posted record p and leaves updateRequested false
ContentOnlyChange(p) ==
  /\ posts[p].status = "posted" /\ posts'[p].status = "posted"
  /\ posts'[p].content # posts[p].content
  /\ ~posts[p].updateRequested /\ ~posts'[p].updateRequested

HitAnswers(u) == Answers(u) /\ uc'.last.path = "hit"

\* C36 (as claimed): an entry is created on a miss that finds an account and
\* a hit within the TTL resets the entry's cached-at timestamp.
C36_RefreshOnHit ==
  [][\A u \in UserIds :
       /\ (Answers(u) /\ uc'.last.path = "found") => uc'.cache[u] = CacheEntry(u)
       /\ HitAnswers(u) => uc'.cache[u].age = 0]_vars

\* C36 (amended): an entry is created, with a new cached-at timestamp, on a
\* miss that finds an account and by nothing else; a hit within the TTL leaves
\* the Map, the entry's timestamp included, as it was, so the age of an entry
\* only grows until a miss re-creates it, however often it is resolved.
C36_FixedLifetime ==
  [][\A u \in UserIds :
       /\ (Answers(u) /\ uc'.last.path = "found") => uc'.cache[u] = CacheEntry(u)
       /\ HitAnswers(u) => uc'.cache = uc.cache
       /\ (uc'.cache[u].cached /\ (~uc.cache[u].cached \/ uc'.cache[u].age < uc.cache[u].age))
            => (Answers(u) /\ uc'.last.path = "found")]_vars

\* an entry that was answered from the cache has expired since, hit or not
C36_Witness ==
  \E u \in UserIds :
    /\ uc.last = [user |-> u, result |-> u, path |-> "hit"]
    /\ uc.cache[u].cached /\ uc.cache[u].age > CacheTimeout
    /\ u \in users /\ uc.pending = {}

\* ------------------------------------------------------------ new-post claims
\* C37: whenever the new-post handler of a record has completed, every
\* message the engine sent to the channel for the record is the record's
\* discordMessageId, also when attaching the acknowledgement mark or the
\* write-back failed after the send.
C37_NoOrphanMessages ==
  \A p \in PostIds :
    np[p].pc \in {"done", "crashed"} => \A m \in SentFor(p) : posts[p].discordMessageId = m

\* C38: a record that enters pending once has at most one message sent for
\* it, whatever is written to it while the send is in flight: its handler
\* sends once and no modification, update request or soft delete starts
\* another new-post handler.
C38_AtMostOneMessage ==
  /\ [](\A p \in PostIds : Cardinality(SentFor(p)) <= 1)
  /\ [][\A p \in PostIds :
          (np'[p].pc = "send" /\ np[p].pc # "send") => posts[p].status = "none"]_vars

\* the record was changed, update-requested and soft-deleted while its send
\* was in flight, and one message was sent
C38_Witness ==
  /\ np["p1"].pc = "react" /\ posts["p1"].status = "deleted"
  /\ posts["p1"].content = 3 /\ hist.requests["p1"] = 1
  /\ Cardinality(SentFor("p1")) = 1

\* ------------------------------------------------------------ overlap claims
\* the sweep writes the snapshot it fetched to record p in this step
SweepWrites(p) ==
  sw.pc = "write" /\ Head(sw.docs).post = p /\ sw'.syncCount = sw.syncCount + 1

\* C39: when a reaction handler and a sweep overlap on a posted record, the
\* sweep never replaces a stored count that equals the live count of the
\* message by the older count it fetched earlier, so that once both have
\* completed the stored count is the live one.
C39_SweepKeepsNewerCount ==
  [][\A p \in PostIds :
       (SweepWrites(p) /\ Converged(p))
         => posts'[p].reactions["ack"] = LiveCount(posts[p].discordMessageId)]_vars

\* h handles a reaction-added event of a user on a message the engine sent
AddOnSentMessage(h) ==
  h.kind = "add" /\ h.user \in UserIds /\ msgs[h.msg].exists /\ msgs[h.msg].sentFor \in PostIds

\* C40: the handler of every reaction-added event of a user on a message the
\* engine sent finds the message's record, also when the event is delivered
\* between the send and the write-back of discordMessageId: once its count
\* lookup has returned, the record was found and the event's count stored.
C40_EventsReflected ==
  \A h \in rh : (AddOnSentMessage(h) /\ h.pc # "count") => h.found
====
